---- MODULE Spec2Model ----
(***************************************************************************)
(* EgoDex search API (asimov-backend): the ranker of utils/db.py           *)
(* (search_videos and its three SQL strategies), the connection pool       *)
(* behind get_conn, the lru_cache'd embedding model of utils/embeddings.py *)
(* and the /search handler of main.py.                                     *)
(*                                                                         *)
(* The table egodex_videos is kept as the quantities the SQL reads for the *)
(* query at hand: per record (identified by s3_uri_h5) the cosine distance *)
(* embedding <=> query vector and the ts_rank of the query text, 0 for a   *)
(* record that description_tsv @@ query does not match.  Scores are exact  *)
(* fractions <<numerator, denominator>>.                                   *)
(***************************************************************************)
EXTENDS Integers, Sequences, FiniteSets

\* ------------------------------------------------------------------ bounds
NumRecs == 3
MaxK == 2

\* -------------------------------------------------------- program constants
RRF_C == 60
minconn == 1
maxconn == 8

NULL == "NULL"
Recs == 1..NumRecs
DistValues == {0, 1, 2}
RankValues == {0, 1, 2}
Modes == {"semantic", "keyword", "hybrid"}
Embeddings == {NULL, "[0.1000000]"}
Queries == {"", "red cup"}

VARIABLES
    dist,       \* record -> embedding <=> query vector, for the non-NULL vector
    rel,        \* record -> ts_rank(description_tsv, query); 0: no match
    call,       \* the arguments of the last search_videos call
    semantic,   \* rows of the CTE semantic of the last hybrid query
    keyword,    \* rows of the CTE keyword of the last hybrid query
    rrf,        \* rows of the CTE rrf of the last hybrid query
    rows,       \* what the last search_videos call returned
    outcome,    \* "none", "ok", or the exception the last call raised
    executed,   \* cur.execute calls the last search_videos call made
    pc,         \* worker thread -> where its /search request stands
    key,        \* worker thread -> the local key of its getconn / putconn
    conn,       \* worker thread -> the connection get_conn yielded to it
    result,     \* worker thread -> how search_videos ended in its with block
    resp,       \* worker thread -> status and error of its last response
    pool,       \* _pool._pool: the free list
    used,       \* _pool._used: key -> connection, as pairs
    rused,      \* _pool._rused: id(connection) -> key, as pairs
    keys,       \* _pool._keys
    nconn,      \* connections psycopg2.connect has made so far
    closed,     \* connections conn.close() was called on
    cached,     \* whether lru_cache holds the result of _load_model()
    served      \* requests accepted so far

rankVars == <<dist, rel, call, semantic, keyword, rrf, rows, outcome, executed>>
poolVars == <<pool, used, rused, keys, nconn, closed>>
serverVars == <<pc, key, conn, result, resp, pool, used, rused, keys, nconn,
                closed, cached, served>>
vars == <<dist, rel, call, semantic, keyword, rrf, rows, outcome, executed,
          pc, key, conn, result, resp, pool, used, rused, keys, nconn,
          closed, cached, served>>

\* ---------------------------------------------------------------- helpers
Response(status, error) == [status |-> status, error |-> error]
NoResponse == Response(0, "none")

\* a dict kept as a set of <<key, value>> pairs
Has(d, k) == \E e \in d : e[1] = k
Get(d, k) == (CHOOSE e \in d : e[1] = k)[2]
Put(d, k, v) == { e \in d : e[1] # k } \cup { <<k, v>> }
Del(d, k) == { e \in d : e[1] # k }

Min(a, b) == IF a < b THEN a ELSE b

Frac(n, d) == <<n, d>>
FracAdd(a, b) == <<a[1] * b[2] + b[1] * a[2], a[2] * b[2]>>
FracLE(a, b) == a[1] * b[2] <= b[1] * a[2]
FracEq(a, b) == a[1] * b[2] = b[1] * a[2]

\* The orders ORDER BY can produce on the rows S: every arrangement of S in
\* which no row comes before a row that sorts strictly ahead of it; ahead
\* holds the pairs <<a, b>> with a sorting strictly ahead of b.
Orders(S, ahead) ==
    { p \in [1..Cardinality(S) -> S] :
        /\ \A i, j \in 1..Cardinality(S) : i # j => p[i] # p[j]
        /\ \A i, j \in 1..Cardinality(S) : i < j => <<p[j], p[i]>> \notin ahead }

\* ORDER BY embedding <=> %s::vector: ascending; the distance to a None
\* parameter is NULL for every row, and NULLs sort as equals
DistAhead(embedding) ==
    { <<a, b>> \in Recs \X Recs : embedding # NULL /\ dist[a] < dist[b] }

\* description_tsv @@ websearch_to_tsquery('english', %s): the empty text
\* parses to the empty tsquery, which matches nothing
Matches(r, query) == query # "" /\ rel[r] > 0

\* ORDER BY ts_rank(...) DESC
RelAhead == { <<a, b>> \in Recs \X Recs : rel[a] > rel[b] }

Result(h5, score, tag) == [h5 |-> h5, score |-> score, search_type |-> tag]

\* ------------------------------------------------------- _search_semantic
\* SELECT ..., embedding <=> %s AS score ORDER BY embedding <=> %s LIMIT k;
\* float(score) raises TypeError on the NULL score of a None embedding.
_search_semantic(embedding, k) ==
    \E p \in Orders(Recs, DistAhead(embedding)) :
        LET n == Min(k, NumRecs) IN
        /\ executed' = 1
        /\ IF embedding = NULL /\ n > 0
           THEN /\ outcome' = "TypeError"
                /\ rows' = <<>>
           ELSE /\ outcome' = "ok"
                /\ rows' = [i \in 1..n |->
                              Result(p[i], Frac(dist[p[i]], 1), "semantic")]
        /\ semantic' = {}
        /\ keyword' = {}
    /\ rrf' = {}
        /\ rrf' = {}

\* -------------------------------------------------------- _search_keyword
\* SELECT ..., ts_rank(...) AS score WHERE description_tsv @@ query
\* ORDER BY score DESC LIMIT k
_search_keyword(query, k) ==
    LET M == { r \in Recs : Matches(r, query) } IN
    \E p \in Orders(M, RelAhead) :
        LET n == Min(k, Cardinality(M)) IN
        /\ executed' = 1
        /\ outcome' = "ok"
        /\ rows' = [i \in 1..n |-> Result(p[i], Frac(rel[p[i]], 1), "keyword")]
        /\ semantic' = {}
        /\ keyword' = {}
    /\ rrf' = {}
        /\ rrf' = {}

\* --------------------------------------------------------- _search_hybrid
\* WITH semantic AS (SELECT s3_uri_h5, ROW_NUMBER() OVER (ORDER BY d) AS rank
\*                   FROM egodex_videos ORDER BY d LIMIT candidate_k)
SemanticCTE(embedding, candidate_k) ==
    { { [h5 |-> p[i], rank |-> i] : i \in 1..Min(candidate_k, NumRecs) } :
        p \in Orders(Recs, DistAhead(embedding)) }

\* keyword AS (SELECT s3_uri_h5, ROW_NUMBER() OVER (ORDER BY ts_rank DESC)
\*             AS rank FROM egodex_videos WHERE ... LIMIT candidate_k):
\* the rows are numbered in ts_rank order, and LIMIT, with no ORDER BY of the
\* SELECT itself, keeps candidate_k of them, which ones SQL leaves open (the
\* output order of a window query is not guaranteed without a top-level
\* ORDER BY).
KeywordLimit(ranked, candidate_k) ==
    { L \in SUBSET ranked : Cardinality(L) = Min(candidate_k, Cardinality(ranked)) }

KeywordCTE(query, candidate_k) ==
    LET M == { r \in Recs : Matches(r, query) } IN
    UNION { KeywordLimit({ [h5 |-> p[i], rank |-> i] : i \in 1..Cardinality(M) },
                         candidate_k) :
              p \in Orders(M, RelAhead) }

\* the side of an outer-joined row that has no partner: every column NULL
NullRow == [h5 |-> 0, rank |-> 0]

\* a variant of RankTerm that counts ranks from 2
RankTermOffByOne(side) ==
    IF side = NullRow THEN Frac(0, 1) ELSE Frac(1, RRF_C + side.rank + 1)

\* COALESCE(1.0 / (60 + x.rank), 0.0) for the side x of a joined row
RankTerm(side) ==
    IF side = NullRow THEN Frac(0, 1) ELSE Frac(1, RRF_C + side.rank)

\* a variant of FullOuterJoin: the inner join of the two lists
InnerJoin(S, K) ==
    { <<s, k>> \in S \X K : s.h5 = k.h5 }

\* semantic s FULL OUTER JOIN keyword k ON s.s3_uri_h5 = k.s3_uri_h5
FullOuterJoin(S, K) ==
    { <<s, k>> \in S \X K : s.h5 = k.h5 }
        \cup { <<s, NullRow>> : s \in { x \in S : \A k \in K : k.h5 # x.h5 } }
        \cup { <<NullRow, k>> : k \in { x \in K : \A s \in S : s.h5 # x.h5 } }

\* rrf AS (SELECT COALESCE(s.s3_uri_h5, k.s3_uri_h5) AS s3_uri_h5,
\*                COALESCE(..) + COALESCE(..) AS rrf_score FROM ... JOIN ...)
RRF(S, K) ==
    { [h5 |-> IF j[1] # NullRow THEN j[1].h5 ELSE j[2].h5,
       rrf_score |-> FracAdd(RankTerm(j[1]), RankTerm(j[2]))] :
        j \in FullOuterJoin(S, K) }

\* a variant of RrfAhead: ORDER BY rrf.rrf_score ASC
RrfAheadAscending(R) ==
    { <<a, b>> \in R \X R : ~FracLE(b.rrf_score, a.rrf_score) }


\* ORDER BY rrf.rrf_score DESC
RrfAhead(R) ==
    { <<a, b>> \in R \X R : ~FracLE(a.rrf_score, b.rrf_score) }

\* LIMIT %s of the final SELECT
FinalLimit(k, n) == Min(k, n)

_search_hybrid(query, embedding, k) ==
    LET candidate_k == k * 2 IN
    \E S \in SemanticCTE(embedding, candidate_k) :
    \E K \in KeywordCTE(query, candidate_k) :
        \* FROM rrf JOIN egodex_videos v ON rrf.s3_uri_h5 = v.s3_uri_h5
        LET joined == { x \in RRF(S, K) : x.h5 \in Recs } IN
        \E p \in Orders(joined, RrfAhead(joined)) :
            LET n == FinalLimit(k, Cardinality(joined)) IN
            /\ executed' = 1
            /\ outcome' = "ok"
            /\ rows' = [i \in 1..n |-> Result(p[i].h5, p[i].rrf_score, "hybrid")]
            /\ semantic' = S
            /\ keyword' = K
            /\ rrf' = RRF(S, K)

\* ---------------------------------------------------------- search_videos
Call(query, k, mode, embedding) ==
    [query |-> query, k |-> k, mode |-> mode, embedding |-> embedding]

\* before the call: nothing asked, nothing returned
NoCall == Call("", 0, "none", NULL)

SearchSemantic(query, k, embedding) ==
    /\ call = NoCall
    /\ call' = Call(query, k, "semantic", embedding)
    /\ _search_semantic(embedding, k)
    /\ UNCHANGED <<dist, rel>>
    /\ UNCHANGED serverVars

SearchKeyword(query, k, embedding) ==
    /\ call = NoCall
    /\ call' = Call(query, k, "keyword", embedding)
    /\ _search_keyword(query, k)
    /\ UNCHANGED <<dist, rel>>
    /\ UNCHANGED serverVars

SearchHybrid(query, k, embedding) ==
    /\ call = NoCall
    /\ call' = Call(query, k, "hybrid", embedding)
    /\ _search_hybrid(query, embedding, k)
    /\ UNCHANGED <<dist, rel>>
    /\ UNCHANGED serverVars

\* else: raise ValueError(f"Invalid search mode: {mode}")
SearchInvalid(query, k, embedding) ==
    /\ call = NoCall
    /\ call' = Call(query, k, "other", embedding)
    /\ outcome' = "ValueError"
    /\ executed' = 0
    /\ rows' = <<>>
    /\ semantic' = {}
    /\ keyword' = {}
    /\ rrf' = {}
    /\ UNCHANGED <<dist, rel>>
    /\ UNCHANGED serverVars

\* _pool = SimpleConnectionPool(minconn=1, maxconn=8, dsn=DBURL): minconn
\* connections made and free, none used; no request yet, no model loaded
InitServer(threads) ==
    /\ pc = [t \in threads |-> "idle"]
    /\ key = [t \in threads |-> 0]
    /\ conn = [t \in threads |-> 0]
    /\ result = [t \in threads |-> "none"]
    /\ resp = [t \in threads |-> NoResponse]
    /\ pool = [i \in 1..minconn |-> i]
    /\ used = {}
    /\ rused = {}
    /\ keys = 0
    /\ nconn = minconn
    /\ closed = {}
    /\ cached = FALSE
    /\ served = 0

InitNoCall ==
    /\ call = NoCall
    /\ semantic = {}
    /\ keyword = {}
    /\ rrf = {}
    /\ rows = <<>>
    /\ outcome = "none"
    /\ executed = 0

\* Any table content, up to the naming of its records: the records are
\* numbered by distance, nearest first (ties in any order).
InitRank ==
    /\ dist \in { d \in [Recs -> DistValues] :
                    \A i, j \in Recs : i < j => d[i] <= d[j] }
    /\ rel \in [Recs -> RankValues]
    /\ InitServer({})
    /\ InitNoCall

\* search_videos as /search calls it: the text stripped and non-empty, the
\* embedding computed for it, k within Query(ge=1, le=100), mode one of the
\* Literal's three.
NextRank ==
    \/ \E k \in 1..MaxK : SearchSemantic("red cup", k, "[0.1000000]")
    \/ \E k \in 1..MaxK : SearchKeyword("red cup", k, NULL)
    \/ \E k \in 1..MaxK : SearchHybrid("red cup", k, "[0.1000000]")

SpecRank == InitRank /\ [][NextRank]_vars

\* search_videos as any caller may call it, conn in hand
NextCall ==
    \/ \E k \in 1..MaxK, query \in Queries, embedding \in Embeddings :
          SearchSemantic(query, k, embedding)
    \/ \E k \in 1..MaxK, query \in Queries, embedding \in Embeddings :
          SearchKeyword(query, k, embedding)
    \/ \E k \in 1..MaxK, query \in Queries, embedding \in Embeddings :
          SearchHybrid(query, k, embedding)
    \/ \E k \in 1..MaxK, query \in Queries, embedding \in Embeddings :
          SearchInvalid(query, k, embedding)

SpecCall == InitRank /\ [][NextCall]_vars


\* ------------------------------------------------------- the /search server
\* Each worker thread of the server runs the synchronous handler search() for
\* one request at a time.  _pool is a psycopg2 SimpleConnectionPool, whose
\* getconn and putconn take no lock (psycopg2.pool: "a connection pool that
\* can't be shared across different threads"), and _load_model is wrapped in
\* functools.lru_cache, which calls the function outside its own lock: a
\* thread may be preempted between any two statements below.
NumThreads == 2
MaxRequests == 3

Threads == DOMAIN pc
QueryTexts == {"  ", "red cup"}

\* q.strip()
Strip(q) == IF q = "  " THEN "" ELSE q

\* the handler ends: the response goes out and the worker is free again
Respond(t, status, error) ==
    /\ pc' = [pc EXCEPT ![t] = "idle"]
    /\ resp' = [resp EXCEPT ![t] = Response(status, error)]
    /\ key' = [key EXCEPT ![t] = 0]
    /\ conn' = [conn EXCEPT ![t] = 0]
    /\ result' = [result EXCEPT ![t] = "none"]

Goto(t, label) == pc' = [pc EXCEPT ![t] = label]

\* search(): text = q.strip(); 400 when empty; embed for semantic and hybrid
Search(t, q, mode) ==
    /\ pc[t] = "idle"
    /\ served < MaxRequests
    /\ served' = served + 1
    /\ IF Strip(q) = ""
       THEN Respond(t, 400, "HTTPException")
       ELSE /\ Goto(t, IF mode \in {"semantic", "hybrid"}
                       THEN "embed_text" ELSE "getconn")
            /\ resp' = [resp EXCEPT ![t] = NoResponse]
            /\ UNCHANGED <<key, conn, result>>
    /\ UNCHANGED <<poolVars, cached>>
    /\ UNCHANGED rankVars

\* embed_text: model = _load_model(); a cache hit returns the model, a miss
\* calls the wrapped function
LoadModelLookup(t) ==
    /\ pc[t] = "embed_text"
    /\ Goto(t, IF cached THEN "getconn" ELSE "_load_model")
    /\ UNCHANGED <<key, conn, result, resp, poolVars, cached, served>>
    /\ UNCHANGED rankVars

\* return SentenceTransformer(MODEL_NAME): the result enters the cache
LoadModelDone(t) ==
    /\ pc[t] = "_load_model"
    /\ cached' = TRUE
    /\ Goto(t, "getconn")
    /\ UNCHANGED <<key, conn, result, resp, poolVars, served>>
    /\ UNCHANGED rankVars

\* SentenceTransformer(MODEL_NAME) raises: nothing is cached, and nothing in
\* search() catches it, so the framework answers 500
LoadModelFails(t) ==
    /\ pc[t] = "_load_model"
    /\ Respond(t, 500, "OSError")
    /\ UNCHANGED <<poolVars, cached, served>>
    /\ UNCHANGED rankVars

\* _getkey: self._keys += 1
GetKeyIncrement(t) ==
    /\ pc[t] = "getconn"
    /\ keys' = keys + 1
    /\ Goto(t, "_getkey")
    /\ UNCHANGED <<key, conn, result, resp, pool, used, rused, nconn, closed,
                   cached, served>>
    /\ UNCHANGED rankVars

\* _getkey: return self._keys
GetKeyReturn(t) ==
    /\ pc[t] = "_getkey"
    /\ key' = [key EXCEPT ![t] = keys]
    /\ Goto(t, "key_in_used")
    /\ UNCHANGED <<conn, result, resp, poolVars, cached, served>>
    /\ UNCHANGED rankVars

\* if key in self._used: return self._used[key]
GetConnKeyInUsed(t) ==
    /\ pc[t] = "key_in_used"
    /\ IF Has(used, key[t])
       THEN /\ conn' = [conn EXCEPT ![t] = Get(used, key[t])]
            /\ Goto(t, "search_videos")
       ELSE /\ Goto(t, "if_pool")
            /\ UNCHANGED conn
    /\ UNCHANGED <<key, result, resp, poolVars, cached, served>>
    /\ UNCHANGED rankVars

\* if self._pool:
GetConnIfPool(t) ==
    /\ pc[t] = "if_pool"
    /\ Goto(t, IF pool # <<>> THEN "pool_pop" ELSE "if_maxconn")
    /\ UNCHANGED <<key, conn, result, resp, poolVars, cached, served>>
    /\ UNCHANGED rankVars

\* self._used[key] = conn = self._pool.pop(); pop raises IndexError on the
\* list another thread emptied
GetConnPop(t) ==
    /\ pc[t] = "pool_pop"
    /\ IF pool = <<>>
       THEN /\ Respond(t, 500, "IndexError")
            /\ UNCHANGED poolVars
       ELSE /\ conn' = [conn EXCEPT ![t] = pool[Len(pool)]]
            /\ pool' = SubSeq(pool, 1, Len(pool) - 1)
            /\ used' = Put(used, key[t], pool[Len(pool)])
            /\ Goto(t, "rused_set")
            /\ UNCHANGED <<key, result, resp, rused, keys, nconn, closed>>
    /\ UNCHANGED <<cached, served>>
    /\ UNCHANGED rankVars

\* self._rused[id(conn)] = key; return conn
GetConnRused(t) ==
    /\ pc[t] = "rused_set"
    /\ rused' = Put(rused, conn[t], key[t])
    /\ Goto(t, "search_videos")
    /\ UNCHANGED <<key, conn, result, resp, pool, used, keys, nconn, closed,
                   cached, served>>
    /\ UNCHANGED rankVars

\* if len(self._used) == self.maxconn: raise PoolError("connection pool
\* exhausted"); nothing catches it: 500
GetConnIfMaxconn(t) ==
    /\ pc[t] = "if_maxconn"
    /\ IF Cardinality(used) = maxconn
       THEN Respond(t, 500, "PoolError")
       ELSE /\ Goto(t, "_connect")
            /\ UNCHANGED <<key, conn, result, resp>>
    /\ UNCHANGED <<poolVars, cached, served>>
    /\ UNCHANGED rankVars

\* _connect(key): conn = psycopg2.connect(...); self._used[key] = conn
Connect(t) ==
    /\ pc[t] = "_connect"
    /\ nconn' = nconn + 1
    /\ conn' = [conn EXCEPT ![t] = nconn + 1]
    /\ used' = Put(used, key[t], nconn + 1)
    /\ Goto(t, "rused_set")
    /\ UNCHANGED <<key, result, resp, pool, rused, keys, closed, cached, served>>
    /\ UNCHANGED rankVars

\* with get_conn() as conn: results = search_videos(conn, ...): the query
\* succeeds, or fails (always, on a connection already closed)
SearchVideos(t) ==
    /\ pc[t] = "search_videos"
    /\ \E r \in (IF conn[t] \in closed THEN {"error"} ELSE {"ok", "error"}) :
          result' = [result EXCEPT ![t] = r]
    /\ Goto(t, "putconn")
    /\ UNCHANGED <<key, conn, resp, poolVars, cached, served>>
    /\ UNCHANGED rankVars

\* finally: _pool.putconn(conn): key = self._rused.get(id(conn)); if key is
\* None: raise PoolError("trying to put unkeyed connection")
PutConnKey(t) ==
    /\ pc[t] = "putconn"
    /\ IF Has(rused, conn[t])
       THEN /\ key' = [key EXCEPT ![t] = Get(rused, conn[t])]
            /\ Goto(t, "if_minconn")
            /\ UNCHANGED <<conn, result, resp>>
       ELSE Respond(t, 500, "PoolError")
    /\ UNCHANGED <<poolVars, cached, served>>
    /\ UNCHANGED rankVars

\* if len(self._pool) < self.minconn: (a connection not closed is rolled
\* back and) self._pool.append(conn); else: conn.close()
PutConnIfMinconn(t) ==
    /\ pc[t] = "if_minconn"
    /\ IF Len(pool) < minconn
       THEN /\ pool' = IF conn[t] \in closed THEN pool ELSE Append(pool, conn[t])
            /\ UNCHANGED closed
       ELSE /\ closed' = closed \cup {conn[t]}
            /\ UNCHANGED pool
    /\ Goto(t, "del_used")
    /\ UNCHANGED <<key, conn, result, resp, used, rused, keys, nconn, cached,
                   served>>
    /\ UNCHANGED rankVars

\* del self._used[key]
PutConnDelUsed(t) ==
    /\ pc[t] = "del_used"
    /\ IF Has(used, key[t])
       THEN /\ used' = Del(used, key[t])
            /\ Goto(t, "del_rused")
            /\ UNCHANGED <<key, conn, result, resp>>
       ELSE /\ Respond(t, 500, "KeyError")
            /\ UNCHANGED used
    /\ UNCHANGED <<pool, rused, keys, nconn, closed, cached, served>>
    /\ UNCHANGED rankVars

\* del self._rused[id(conn)]; the with block is left: return results, or
\* the exception of search_videos goes up
PutConnDelRused(t) ==
    /\ pc[t] = "del_rused"
    /\ IF Has(rused, conn[t])
       THEN /\ rused' = Del(rused, conn[t])
            /\ IF result[t] = "ok"
               THEN Respond(t, 200, "none")
               ELSE Respond(t, 500, "psycopg2.Error")
       ELSE /\ Respond(t, 500, "KeyError")
            /\ UNCHANGED rused
    /\ UNCHANGED <<pool, used, keys, nconn, closed, cached, served>>
    /\ UNCHANGED rankVars

Init ==
    /\ dist = [r \in Recs |-> 0]
    /\ rel = [r \in Recs |-> 0]
    /\ InitNoCall
    /\ InitServer(1..NumThreads)

Next ==
    \/ \E t \in Threads, q \in QueryTexts, mode \in Modes : Search(t, q, mode)
    \/ \E t \in Threads : LoadModelLookup(t)
    \/ \E t \in Threads : LoadModelDone(t)
    \/ \E t \in Threads : LoadModelFails(t)
    \/ \E t \in Threads : GetKeyIncrement(t)
    \/ \E t \in Threads : GetKeyReturn(t)
    \/ \E t \in Threads : GetConnKeyInUsed(t)
    \/ \E t \in Threads : GetConnIfPool(t)
    \/ \E t \in Threads : GetConnPop(t)
    \/ \E t \in Threads : GetConnRused(t)
    \/ \E t \in Threads : GetConnIfMaxconn(t)
    \/ \E t \in Threads : Connect(t)
    \/ \E t \in Threads : SearchVideos(t)
    \/ \E t \in Threads : PutConnKey(t)
    \/ \E t \in Threads : PutConnIfMinconn(t)
    \/ \E t \in Threads : PutConnDelUsed(t)
    \/ \E t \in Threads : PutConnDelRused(t)

Spec == Init /\ [][Next]_vars


\* ------------------------------------------- the pool with every slot taken
\* maxconn + 1 requests, named in their order of arrival, each running
\* getconn and putconn without preemption (one of the schedules above).

\* _pool.getconn(), run to its return or its raise
getconn(t) ==
    /\ keys' = keys + 1
    /\ key' = [key EXCEPT ![t] = keys + 1]
    /\ IF pool # <<>>
       THEN /\ conn' = [conn EXCEPT ![t] = pool[Len(pool)]]
            /\ pool' = SubSeq(pool, 1, Len(pool) - 1)
            /\ used' = Put(used, keys + 1, pool[Len(pool)])
            /\ rused' = Put(rused, pool[Len(pool)], keys + 1)
            /\ UNCHANGED nconn
       ELSE IF Cardinality(used) = maxconn
       THEN /\ UNCHANGED <<conn, pool, used, rused, nconn>>
       ELSE /\ nconn' = nconn + 1
            /\ conn' = [conn EXCEPT ![t] = nconn + 1]
            /\ used' = Put(used, keys + 1, nconn + 1)
            /\ rused' = Put(rused, nconn + 1, keys + 1)
            /\ UNCHANGED pool
    /\ UNCHANGED closed

\* _pool.putconn(conn), run to its return
putconn(t) ==
    /\ IF Len(pool) < minconn
       THEN /\ pool' = Append(pool, conn[t])
            /\ UNCHANGED closed
       ELSE /\ closed' = closed \cup {conn[t]}
            /\ UNCHANGED pool
    /\ used' = Del(used, Get(rused, conn[t]))
    /\ rused' = Del(rused, conn[t])
    /\ UNCHANGED <<keys, nconn>>

\* search() up to the with block, for a keyword request: conn = getconn();
\* PoolError("connection pool exhausted") leaves the handler as a 500
Enter(t) ==
    /\ pc[t] = "idle"
    /\ resp[t] = NoResponse
    /\ \A u \in Threads : u < t => (pc[u] # "idle" \/ resp[u] # NoResponse)
    /\ getconn(t)
    /\ IF pool = <<>> /\ Cardinality(used) = maxconn
       THEN /\ resp' = [resp EXCEPT ![t] = Response(500, "PoolError")]
            /\ UNCHANGED pc
       ELSE /\ Goto(t, "search_videos")
            /\ UNCHANGED resp
    /\ served' = served + 1
    /\ UNCHANGED <<result, cached>>
    /\ UNCHANGED rankVars

\* the with block and its finally: search_videos returns, then putconn(conn)
Leave(t) ==
    /\ pc[t] = "search_videos"
    /\ putconn(t)
    /\ resp' = [resp EXCEPT ![t] = Response(200, "none")]
    /\ pc' = [pc EXCEPT ![t] = "idle"]
    /\ key' = [key EXCEPT ![t] = 0]
    /\ conn' = [conn EXCEPT ![t] = 0]
    /\ UNCHANGED <<result, cached, served>>
    /\ UNCHANGED rankVars

InitFull ==
    /\ dist = [r \in Recs |-> 0]
    /\ rel = [r \in Recs |-> 0]
    /\ InitNoCall
    /\ InitServer(1..(maxconn + 1))

NextFull ==
    \/ \E t \in Threads : Enter(t)
    \/ \E t \in Threads : Leave(t)

SpecFull == InitFull /\ [][NextFull]_vars

\* ------------------------------------------------------------ the server
\* a request holds its connection from the return of getconn to putconn
Holding(t) == pc[t] = "search_videos"
Quiescent == \A t \in Threads : pc[t] = "idle"

\* C1: the connection a /search request acquired through get_conn is
\* returned on every exit path of the with block, so that once every request
\* has completed, successfully or not, no connection is checked out.
C1_AllReleased ==
    Quiescent => Cardinality(used) = 0

\* C4: under any interleaving of concurrent requests the pool's bookkeeping
\* stays consistent (a held connection is recorded in _used under the
\* holder's key, _rused maps it back to that key, and it is not in the free
\* list) and no connection is held by two requests at the same time.
C4_NoSharedConnection ==
    \A t \in Threads :
        Holding(t) =>
            /\ \A u \in Threads \ {t} : Holding(u) => conn[u] # conn[t]
            /\ <<key[t], conn[t]>> \in used
            /\ <<conn[t], key[t]>> \in rused
            /\ \A i \in 1..Len(pool) : pool[i] # conn[t]

\* C6: the embedding model is loaded at most once per process: no two loads
\* run at the same time, and no load runs once the model has been loaded.
C6_LoadedOnce ==
    /\ Cardinality({ t \in Threads : pc[t] = "_load_model" }) <= 1
    /\ cached => \A t \in Threads : pc[t] # "_load_model"

\* C8: a request whose model load failed ends with a service-unavailable
\* status (503), distinct from a generic server fault, and holds no
\* connection.
C8_UnavailableStatus ==
    \A t \in Threads :
        resp[t].error = "OSError" =>
            (resp[t].status = 503 /\ ~\E e \in used : e[1] = key[t])

\* C5: the pool never has more than 8 connections checked out, and an
\* acquire that finds all 8 checked out waits for a release instead of
\* failing its request.
C5_BlocksWhenFull ==
    /\ Cardinality(used) <= 8
    /\ \A t \in Threads : resp[t].error # "PoolError"

\* ------------------------------------------------------------ the ranker
HybridDone == call.mode = "hybrid" /\ outcome = "ok"

InSemantic(r) == \E s \in semantic : s.h5 = r
InKeyword(r) == \E x \in keyword : x.h5 = r
Candidates == { s.h5 : s \in semantic } \cup { x.h5 : x \in keyword }
Returned == { rows[i].h5 : i \in 1..Len(rows) }

\* C2: in hybrid mode the score of every record of the union of the two
\* candidate lists is 1/(60+r1) + 1/(60+r2) for a record at rank r1 of the
\* semantic list and rank r2 of the keyword list, and 1/(60+r) for a record
\* in one list only, at rank r; a returned row reports that score.
C2_FusedScore ==
    HybridDone =>
        /\ \A r \in Candidates : \E x \in rrf : x.h5 = r
        /\ \A x \in rrf :
            /\ \A s \in semantic, y \in keyword :
                  (s.h5 = x.h5 /\ y.h5 = x.h5) =>
                      FracEq(x.rrf_score,
                             Frac((60 + s.rank) + (60 + y.rank),
                                  (60 + s.rank) * (60 + y.rank)))
            /\ \A s \in semantic :
                  (s.h5 = x.h5 /\ ~InKeyword(x.h5)) =>
                      FracEq(x.rrf_score, Frac(1, 60 + s.rank))
            /\ \A y \in keyword :
                  (y.h5 = x.h5 /\ ~InSemantic(x.h5)) =>
                      FracEq(x.rrf_score, Frac(1, 60 + y.rank))
        /\ \A i \in 1..Len(rows) :
              \E x \in rrf : x.h5 = rows[i].h5 /\ rows[i].score = x.rrf_score

\* a hybrid call in which one record is in both lists and another in one only
C2_Witness ==
    /\ HybridDone
    /\ \E r \in Candidates : InSemantic(r) /\ InKeyword(r)
    /\ \E r \in Candidates : InSemantic(r) /\ ~InKeyword(r)
    /\ \E r \in Candidates : ~InSemantic(r) /\ InKeyword(r)
    /\ \E r \in Returned : InSemantic(r) /\ InKeyword(r)

\* C3: in hybrid mode a record of only one candidate list takes part in the
\* fusion (it has one fused row, exactly one, like every candidate) and is
\* returned whenever its fused score earns it a place among the k best of the
\* union; no record is returned twice.
C3_PartialMembership ==
    HybridDone =>
        /\ \A r \in Candidates : Cardinality({ x \in rrf : x.h5 = r }) = 1
        /\ \A r \in Candidates :
              /\ Cardinality({ x \in semantic : x.h5 = r }) <= 1
              /\ Cardinality({ x \in keyword : x.h5 = r }) <= 1
        /\ \A x \in rrf : x.h5 \in Candidates
        /\ \A i, j \in 1..Len(rows) : i # j => rows[i].h5 # rows[j].h5
        /\ Len(rows) = Min(call.k, Cardinality(Candidates))
        /\ \A x \in rrf :
              x.h5 \notin Returned =>
                  \A i \in 1..Len(rows) : FracLE(x.rrf_score, rows[i].score)

\* a hybrid call that returns a record found by the keyword list alone
C3_Witness ==
    /\ HybridDone
    /\ \E r \in Returned : InKeyword(r) /\ ~InSemantic(r)
    /\ \E r \in Candidates : InSemantic(r) /\ ~InKeyword(r)

C10_CandidateLists ==
    HybridDone =>
        /\ { s.rank : s \in semantic } = 1..Min(2 * call.k, NumRecs)
        /\ \A s \in semantic : \A r \in Recs :
              ~InSemantic(r) => dist[s.h5] <= dist[r]
        /\ \A s, t \in semantic : s.rank < t.rank => dist[s.h5] <= dist[t.h5]
        /\ { y.rank : y \in keyword } =
              1..Min(2 * call.k, Cardinality({ r \in Recs : rel[r] > 0 }))
        /\ \A y \in keyword : \A r \in Recs :
              (rel[r] > 0 /\ ~InKeyword(r)) => rel[r] <= rel[y.h5]
        /\ \A y, z \in keyword : y.rank < z.rank => rel[z.h5] <= rel[y.h5]

\* C7: a call that lacks a required input (no vector for semantic or hybrid,
\* no text for keyword or hybrid) fails with a validation error and executes
\* nothing against the store.
LacksInput ==
    \/ call.mode \in {"semantic", "hybrid"} /\ call.embedding = NULL
    \/ call.mode \in {"keyword", "hybrid"} /\ call.query = ""

C7_ValidatedBeforeStore ==
    LacksInput => (outcome = "ValueError" /\ executed = 0)

====
